---------------------------- MODULE Spec2Model ----------------------------
(***************************************************************************)
(* Video2Text: the interactive job pipeline (app.py, modules/*.py) and the *)
(* command-line pipeline (video_to_text.py) as state machines.             *)
(*                                                                         *)
(* Time is counted in ticks, TicksPerSec ticks to the second, so that the  *)
(* fractional offsets the probe and the speech model report (floats in the *)
(* code) are exact here.  Text is a sequence of one-character strings, so  *)
(* that strip() and the renderers act on characters.                       *)
(***************************************************************************)
EXTENDS Integers, Sequences, FiniteSets, TLC

(***************************************************************************)
(* Bounds of the model.                                                    *)
(***************************************************************************)
\* resolution of fractional seconds
TicksPerSec == 2
\* SpecSplit: audio lengths 0..MaxSplitTicks ticks, chunk durations 1..MaxSplitDur s
MaxSplitTicks == 13
MaxSplitDur == 3

(***************************************************************************)
(* Program constants.                                                      *)
(***************************************************************************)
\* the capture window after an interval boundary, in seconds
ScreenshotWindow == 5
\* the share of the progress bar given to the chunk loop, and where it starts
ChunkProgressSpan == 70
ChunkProgressBase == 25

Sec(s) == s * TicksPerSec

(***************************************************************************)
(* Text.                                                                   *)
(***************************************************************************)
Whitespace == {" ", "\n"}

RECURSIVE LStrip(_)
LStrip(s) == IF s # <<>> /\ Head(s) \in Whitespace THEN LStrip(Tail(s)) ELSE s

RECURSIVE RStrip(_)
RStrip(s) ==
    IF s # <<>> /\ s[Len(s)] \in Whitespace
    THEN RStrip(SubSeq(s, 1, Len(s) - 1))
    ELSE s

\* str.strip()
Strip(s) == RStrip(LStrip(s))

DigitChars == <<"0", "1", "2", "3", "4", "5", "6", "7", "8", "9">>

\* "%d" % n, n >= 0
RECURSIVE Decimal(_)
Decimal(n) ==
    IF n < 10 THEN <<DigitChars[n + 1]>>
    ELSE Decimal(n \div 10) \o <<DigitChars[(n % 10) + 1]>>

\* "%02d" % n, n >= 0
Decimal2(n) == IF n < 10 THEN <<"0">> \o Decimal(n) ELSE Decimal(n)

\* int(seconds) of a non-negative float: truncation
IntSeconds(ticks) == ticks \div TicksPerSec

\* str(datetime.timedelta(seconds=n)) for an integer n >= 0
TimedeltaStr(n) ==
    LET days == n \div 86400
        secs == n % 86400
        hh == secs \div 3600
        mm == (secs % 3600) \div 60
        ss == secs % 60
        clock == Decimal(hh) \o <<":">> \o Decimal2(mm) \o <<":">> \o Decimal2(ss)
    IN  IF days = 0 THEN clock
        ELSE Decimal(days)
             \o (IF days = 1 THEN <<" ", "d", "a", "y">>
                 ELSE <<" ", "d", "a", "y", "s">>)
             \o <<",", " ">> \o clock

format_timestamp(ticks) == TimedeltaStr(IntSeconds(ticks))


(***************************************************************************)
(* Progress values.  The code computes 25 + i * (70 / n) and adds          *)
(* (70 / n) / 2 in floating point; the values are kept here as exact       *)
(* fractions num/den with den > 0.  The comparisons below agree with the   *)
(* float comparisons: the only ties with the literal 90 are at n = 7 and   *)
(* n = 14, where 70 / n is exact in binary floating point.                 *)
(***************************************************************************)
Frac(n, d) == [num |-> n, den |-> d]
Whole(n) == Frac(n, 1)
FracAdd(a, b) == Frac(a.num * b.den + b.num * a.den, a.den * b.den)
FracMul(a, b) == Frac(a.num * b.num, a.den * b.den)
FracLeq(a, b) == a.num * b.den <= b.num * a.den
FracEq(a, b) == a.num * b.den = b.num * a.den

(***************************************************************************)
(* Inputs: the uploaded videos and the settings of the submission form.    *)
(* A video is its audio length and what is said in it: utterances with an  *)
(* absolute offset and the raw text the speech model returns for them.     *)
(***************************************************************************)
Utt(at, text) == [at |-> at, text |-> text]

\* 125 s: three chunks of 60 s; offsets 0, 4.x, 5 and 63 s
VideoTalk ==
    [name |-> "talk.mp4", duration |-> Sec(125),
     speech |-> << Utt(Sec(0), <<" ", "a">>), Utt(Sec(4) + 1, <<"b">>),
                   Utt(Sec(5), <<"c", " ">>), Utt(Sec(63), <<"d">>) >>]

\* 60 s, an exact multiple of the 60 s chunk; a blank segment and two
\* segments inside the same second
VideoExact ==
    [name |-> "exact.mp4", duration |-> Sec(60),
     speech |-> << Utt(Sec(9), <<"e">>), Utt(Sec(14), <<"h">>),
                   Utt(Sec(20), <<" ">>), Utt(Sec(30), <<"f">>),
                   Utt(Sec(30) + 1, <<"g">>) >>]

\* 485 s of near silence: nine chunks of 60 s, a sentence in the first and
\* one in the seventh
VideoLong ==
    [name |-> "long.mp4", duration |-> Sec(485),
     speech |-> << Utt(Sec(36), <<"y">>), Utt(Sec(400), <<"z">>) >>]

NoVideo == [name |-> "", duration |-> 0, speech |-> <<>>]

Videos == {VideoTalk, VideoExact, VideoLong}
\* values of the two sliders of the form (60..600 step 30, 10..120 step 5)
ChunkDurations == {60, 90}
Intervals == {10, 15}
\* identifiers generate_job_id may return
JobIds == {"a1b2c3d4"}

\* the identifiers of the runs with several jobs
AllJobIds == JobIds \cup {"e5f6a7b8"}

\* a short clip for the runs with several jobs: 8 s, one sentence at 6 s
VideoBrief ==
    [name |-> "brief.mp4", duration |-> Sec(8), speech |-> <<Utt(Sec(6), <<"k">>)>>]

(***************************************************************************)
(* The speech model on chunk i of a video cut into chunks of cd seconds:   *)
(* the utterances inside [i*cd, (i+1)*cd), in time order, with offsets     *)
(* relative to the start of the chunk.                                     *)
(***************************************************************************)
RECURSIVE SegmentsFrom(_, _, _)
SegmentsFrom(speech, lo, hi) ==
    IF speech = <<>> THEN <<>>
    ELSE LET u == Head(speech)
             rest == SegmentsFrom(Tail(speech), lo, hi)
         IN  IF lo <= u.at /\ u.at < hi
             THEN <<[start |-> u.at - lo, text |-> u.text]>> \o rest
             ELSE rest

Whisper(video, i, cd) == SegmentsFrom(video.speech, Sec(i * cd), Sec((i + 1) * cd))

RECURSIVE CountNonEmpty(_)
CountNonEmpty(segs) ==
    IF segs = <<>> THEN 0
    ELSE (IF Strip(Head(segs).text) # <<>> THEN 1 ELSE 0) + CountNonEmpty(Tail(segs))

(***************************************************************************)
(* State.                                                                  *)
(***************************************************************************)
VARIABLES
    ledger,           \* jobs/<id>.json: job id -> record, for the files that exist
    temp_processing,  \* job ids whose temp_processing/<id>/ (the video) exists
    output,           \* output/<id>/: job id -> (file name -> content)
    worker,           \* job id -> the locals of its process_video_thread
    now,              \* the clock datetime.now() reads
    fmt,              \* SpecFormat: one call of format_timestamp
    cli,              \* the command-line run of video_to_text.main
    torn,             \* job ids whose jobs/<id>.json is open for writing, its text incomplete
    written,          \* SpecLedger: job id -> the records whose write was completed
    reader            \* SpecLedger: the front end's call of load_job_status / list_jobs

vars == <<ledger, temp_processing, output, worker, now, fmt, cli, torn, written, reader>>

\* dict[k] = v
DictSet(d, k, v) == [x \in DOMAIN d \cup {k} |-> IF x = k THEN v ELSE d[x]]
\* del dict[k], a file removed from a directory
DictDel(d, k) == [x \in DOMAIN d \ {k} |-> d[x]]
EmptyDict == <<>>

\* utils.load_job_status(job_id) or {}
load_job_status(job_id) ==
    IF job_id \in DOMAIN ledger THEN ledger[job_id] ELSE EmptyDict

\* utils.save_job_status: the whole file is overwritten
save_job_status(job_id, status_data) ==
    ledger' = DictSet(ledger, job_id, status_data)

\* app.update_job_progress
UpdatedRecord(job_id, text, progress) ==
    DictSet(DictSet(DictSet(load_job_status(job_id),
        "status", text), "progress", progress), "updated_at", now)

\* mutant: every worker reports into the record of the first job
update_job_progress_SharedFile(job_id, text, progress) ==
    /\ save_job_status(CHOOSE j \in JobIds : TRUE, UpdatedRecord(job_id, text, progress))
    /\ now' = now + 1

update_job_progress(job_id, text, progress) ==
    /\ save_job_status(job_id, UpdatedRecord(job_id, text, progress))
    /\ now' = now + 1

IdleWorker ==
    [pc |-> "idle", video |-> NoVideo, chunk_duration |-> 0,
     timestamp_interval |-> 0, duration |-> 0, num_chunks |-> 0,
     audio_chunks |-> <<>>, start_times |-> <<>>, i |-> 0, progress_per_chunk |-> Whole(0),
     current_progress |-> Whole(0), segments |-> <<>>,
     timestamped_chunks |-> <<>>, screenshots |-> EmptyDict,
     persistent_screenshots |-> EmptyDict, error |-> "",
     \* history, read by no action: the chunks handed to the speech model,
     \* the non-empty segments it returned, the chunks it raised on, the
     \* chunks abandoned by a raise after it, each segment handled, the
     \* external call that failed fatally, the last two progress values
     \* written, whether Completed was written, and what the two renderers
     \* returned ("" before their call)
     transcribed |-> <<>>, ok_segments |-> 0, failed_chunks |-> 0,
     aborted_chunks |-> 0, log |-> <<>>, fatal |-> "",
     prev_progress |-> Whole(0), last_progress |-> Whole(0),
     wrote_completed |-> FALSE, txt_saved |-> "", pdf_saved |-> "",
     \* whether delete_job was called for the job, and if so whether the
     \* last call came while the worker was running or at rest
     deleted |-> "no"]


W(j) == worker[j]

\* the worker of job j goes on as w2
Goto(j, w2) == worker' = [worker EXCEPT ![j] = w2]

\* mutant: nothing catches the exception, the thread ends where it was raised
Raise_Uncaught(j, w, msg) == Goto(j, [w EXCEPT !.pc = "dead", !.error = msg])

\* an exception leaves the try block of process_video_thread (app.py:97)
Raise(j, w, msg) == Goto(j, [w EXCEPT !.pc = "except", !.error = msg])

\* progress_callback(job_id, text, progress), then on to pc
Report(j, w, text, progress, pc) ==
    /\ update_job_progress(j, text, progress)
    /\ Goto(j, [w EXCEPT !.pc = pc, !.prev_progress = w.last_progress,
                  !.last_progress = progress])

Files == <<temp_processing, output>>

(***************************************************************************)
(* The front end.                                                          *)
(***************************************************************************)
\* app.create_new_job
NewJobRecord(job_id, video, cd, ti) ==
    [job_id |-> job_id, filename |-> video.name, status |-> "Created",
     progress |-> Whole(0), created_at |-> now,
     settings |-> [chunk_duration |-> cd, timestamp_interval |-> ti,
                   whisper_model |-> "base"]]

\* the submit handler: the record, the job's folder with the video in it,
\* and the worker thread
Submit(j, video, cd, ti) ==
    /\ W(j).pc = "idle"
    /\ j \notin DOMAIN ledger
    /\ save_job_status(j, NewJobRecord(j, video, cd, ti))
    /\ now' = now + 1
    /\ temp_processing' = temp_processing \cup {j}
    /\ Goto(j, [IdleWorker EXCEPT !.pc = "start", !.video = video,
                  !.chunk_duration = cd, !.timestamp_interval = ti])
    /\ UNCHANGED <<output, fmt, cli, torn, written, reader>>

\* mutant: the whole output directory removed, not the job's part of it
delete_job_WholeOutput(j) ==
    /\ j \in DOMAIN ledger \/ j \in temp_processing \/ j \in DOMAIN output
    /\ ledger' = DictDel(ledger, j)
    /\ output' = EmptyDict
    /\ temp_processing' = temp_processing \ {j}
    /\ Goto(j, [W(j) EXCEPT !.deleted = IF W(j).pc \in {"idle", "done"}
                                        THEN "at_rest" ELSE "running"])
    /\ UNCHANGED <<now, fmt, cli, torn, written, reader>>

\* utils.delete_job, from delete_job_handler or clear_all_jobs: nothing asks
\* whether the job's worker is still running
delete_job(j) ==
    /\ j \in DOMAIN ledger \/ j \in temp_processing \/ j \in DOMAIN output
    /\ ledger' = DictDel(ledger, j)
    /\ output' = DictDel(output, j)
    /\ temp_processing' = temp_processing \ {j}
    /\ Goto(j, [W(j) EXCEPT !.deleted = IF W(j).pc \in {"idle", "done"}
                                        THEN "at_rest" ELSE "running"])
    /\ UNCHANGED <<now, fmt, cli, torn, written, reader>>

\* job_data.get(key, default)
Get(rec, key, default) == IF key \in DOMAIN rec THEN rec[key] ELSE default

\* the 'Unknown' that stands in a listing for a missing creation time
UnknownTime == -1

\* the listing entry of one record
JobEntry(j, rec) ==
    [job_id |-> j, filename |-> Get(rec, "filename", "Unknown"),
     status |-> Get(rec, "status", "Unknown"),
     created_at |-> Get(rec, "created_at", UnknownTime)]

\* the order of sorted(..., reverse=True) on the creation times, which are
\* compared as strings: 'Unknown' comes before every time
NewerOrEqual(a, b) ==
    \/ a.created_at = UnknownTime
    \/ b.created_at # UnknownTime /\ a.created_at >= b.created_at

\* utils.list_jobs over the records `files` holds: an entry for each record
\* that is not empty, newest first; the order of records with the same key
\* is the order os.listdir gives them in, one of the possible ones here
ListJobs(files) ==
    LET listed == { j \in DOMAIN files : files[j] # EmptyDict }
        n == Cardinality(listed)
    IN  CHOOSE jobs \in [1..n -> { JobEntry(j, files[j]) : j \in listed }] :
            /\ \A j \in listed : \E k \in 1..n : jobs[k].job_id = j
            /\ \A k \in 1..n, l \in 1..n : k < l => NewerOrEqual(jobs[k], jobs[l])

list_jobs == ListJobs(ledger)

(***************************************************************************)
(* app.process_video_thread and transcriber.process_video, one action per  *)
(* ledger write and per external call.                                     *)
(***************************************************************************)
ThreadStart(j) ==
    /\ W(j).pc = "start"
    /\ Report(j, W(j), "Starting processing...", Whole(0), "pv_start")
    /\ UNCHANGED <<Files, fmt, cli, torn, written, reader>>

PVStart(j) ==
    /\ W(j).pc = "pv_start"
    /\ Report(j, W(j), "Starting video processing...", Whole(0), "pv_tempdir")
    /\ UNCHANGED <<Files, fmt, cli, torn, written, reader>>

PVTempDir(j) ==
    /\ W(j).pc = "pv_tempdir"
    /\ Report(j, W(j), "Created temporary directory", Whole(5), "extract")
    /\ UNCHANGED <<Files, fmt, cli, torn, written, reader>>

\* utils.extract_audio_from_video: the video must exist, ffmpeg must exit 0
ExtractAudio(j) ==
    /\ W(j).pc = "extract"
    /\ IF j \notin temp_processing
       THEN Raise(j, [W(j) EXCEPT !.fatal = "extract"], "Video file not found")
       ELSE \E ok \in BOOLEAN :
              IF ok THEN Goto(j, [W(j) EXCEPT !.pc = "extracted"])
              ELSE Raise(j, [W(j) EXCEPT !.fatal = "extract"],
                         "ffmpeg returned non-zero exit status")
    /\ UNCHANGED <<ledger, now, Files, fmt, cli, torn, written, reader>>

PVExtracted(j) ==
    /\ W(j).pc = "extracted"
    /\ Report(j, W(j), "Extracted audio from video", Whole(10), "convert")
    /\ UNCHANGED <<Files, fmt, cli, torn, written, reader>>

\* utils.convert_audio_to_wav: audio.mp3 is in the worker's own temporary
\* directory, which nothing else removes
ConvertAudio(j) ==
    /\ W(j).pc = "convert"
    /\ \E ok \in BOOLEAN :
         IF ok THEN Goto(j, [W(j) EXCEPT !.pc = "converted"])
         ELSE Raise(j, [W(j) EXCEPT !.fatal = "convert"],
                    "ffmpeg returned non-zero exit status")
    /\ UNCHANGED <<ledger, now, Files, fmt, cli, torn, written, reader>>

PVConverted(j) ==
    /\ W(j).pc = "converted"
    /\ Report(j, W(j), "Converted audio to WAV format", Whole(15), "probe")
    /\ UNCHANGED <<Files, fmt, cli, torn, written, reader>>


(***************************************************************************)
(* utils.split_audio_into_chunks                                           *)
(***************************************************************************)
\* mutant: the count rounded up instead of floor + 1
NumChunks_RoundedUp(duration, cd) ==
    (duration + TicksPerSec * cd - 1) \div (TicksPerSec * cd)

\* int(duration / chunk_duration) + 1, the duration in ticks
NumChunks(duration, cd) == (duration \div (TicksPerSec * cd)) + 1

\* mutant: every chunk taken to start at the start of the audio
StartTime_Zero(i, cd) == 0

\* start_time = i * chunk_duration
StartTime(i, cd) == i * cd

\* f"chunk_{i:03d}.wav" under chunk_dir
ChunkPath(i) ==
    "chunks/chunk_" \o (IF i < 10 THEN "00" ELSE IF i < 100 THEN "0" ELSE "")
        \o ToString(i) \o ".wav"

\* ffprobe: the duration, or a non-zero exit
Probe(j) ==
    /\ W(j).pc = "probe"
    /\ \E ok \in BOOLEAN :
         IF ok
         THEN Goto(j, [W(j) EXCEPT !.pc = "carve",
                         !.duration = W(j).video.duration,
                         !.num_chunks = NumChunks(W(j).video.duration,
                                                  W(j).chunk_duration),
                         !.audio_chunks = <<>>, !.start_times = <<>>, !.i = 0])
         ELSE Raise(j, [W(j) EXCEPT !.fatal = "probe"],
                    "ffprobe returned non-zero exit status")
    /\ UNCHANGED <<ledger, now, Files, fmt, cli, torn, written, reader>>

\* mutant: a chunk that cannot be carved is left out and the loop goes on
Carve_SkipsFailure(j) ==
    /\ W(j).pc = "carve"
    /\ W(j).i < W(j).num_chunks
    /\ \E ok \in BOOLEAN :
         IF ok
         THEN Goto(j, [W(j) EXCEPT
                         !.audio_chunks = Append(@, ChunkPath(W(j).i)),
                         !.start_times = Append(@, StartTime(W(j).i,
                                                    W(j).chunk_duration)),
                         !.i = @ + 1])
         ELSE Goto(j, [W(j) EXCEPT !.fatal = "carve", !.i = @ + 1])
    /\ UNCHANGED <<ledger, now, Files, fmt, cli, torn, written, reader>>

\* one turn of the loop: ffmpeg carves chunk i, or exits non-zero
Carve(j) ==
    /\ W(j).pc = "carve"
    /\ W(j).i < W(j).num_chunks
    /\ \E ok \in BOOLEAN :
         IF ok
         THEN Goto(j, [W(j) EXCEPT
                         !.audio_chunks = Append(@, ChunkPath(W(j).i)),
                         !.start_times = Append(@, StartTime(W(j).i,
                                                    W(j).chunk_duration)),
                         !.i = @ + 1])
         ELSE Raise(j, [W(j) EXCEPT !.fatal = "carve"],
                    "ffmpeg returned non-zero exit status")
    /\ UNCHANGED <<ledger, now, Files, fmt, cli, torn, written, reader>>

\* 70 / len(audio_chunks), or 0 for no chunk
ProgressPerChunk(n) == IF n > 0 THEN Frac(ChunkProgressSpan, n) ELSE Whole(0)

\* 25 + (i * progress_per_chunk)
CurrentProgress(i, ppc) == FracAdd(Whole(ChunkProgressBase), FracMul(Whole(i), ppc))

\* current_progress + progress_per_chunk/2
TranscribedProgress(cur, ppc) == FracAdd(cur, FracMul(ppc, Frac(1, 2)))

\* the value written with "Finished transcription"
FinishedProgress == Whole(90)

\* the split returns; "Split audio into n chunks"; the loop's locals
PVSplit(j) ==
    /\ W(j).pc = "carve"
    /\ W(j).i = W(j).num_chunks
    /\ Report(j, [W(j) EXCEPT !.i = 0, !.timestamped_chunks = <<>>,
                    !.screenshots = EmptyDict,
                    !.progress_per_chunk = ProgressPerChunk(Len(W(j).start_times))],
              "Split audio into " \o ToString(W(j).num_chunks) \o " chunks",
              Whole(20), "chunk_begin")
    /\ UNCHANGED <<Files, fmt, cli, torn, written, reader>>

(***************************************************************************)
(* The chunk loop of transcriber.process_video.                            *)
(***************************************************************************)
ChunkLabel(w) == ToString(w.i + 1) \o "/" \o ToString(Len(w.start_times))

ChunkBegin(j) ==
    /\ W(j).pc = "chunk_begin"
    /\ W(j).i < Len(W(j).start_times)
    /\ LET cur == CurrentProgress(W(j).i, W(j).progress_per_chunk)
       IN  Report(j, [W(j) EXCEPT !.current_progress = cur],
                  "Transcribing chunk " \o ChunkLabel(W(j)) \o "...", cur,
                  "transcribe")
    /\ UNCHANGED <<Files, fmt, cli, torn, written, reader>>

\* the speech model on chunk i: its segments, or an exception, which the
\* loop's except clause answers with `continue`
\* mutant: the loop is left at the first chunk that raises
AfterChunkError_Break(w) ==
    [w EXCEPT !.pc = "chunk_begin", !.i = Len(w.start_times), !.segments = <<>>]

\* mutant: the exception of a chunk leaves the pipeline
AfterChunkError_Propagates(w) ==
    [w EXCEPT !.pc = "except", !.error = "Transcription failed"]

\* except Exception: ... continue (transcriber.py:135): on to the next chunk
AfterChunkError(w) ==
    [w EXCEPT !.pc = "chunk_begin", !.i = @ + 1, !.segments = <<>>]

Transcribe(j) ==
    /\ W(j).pc = "transcribe"
    /\ LET w == [W(j) EXCEPT !.transcribed = Append(@, W(j).i)]
       IN  \E ok \in BOOLEAN :
             IF ok
             THEN LET segs == Whisper(w.video, w.i, w.chunk_duration)
                  IN  Goto(j, [w EXCEPT !.pc = "segment", !.segments = segs,
                                 !.ok_segments = @ + CountNonEmpty(segs)])
             ELSE Goto(j, [AfterChunkError(w) EXCEPT !.failed_chunks = @ + 1])
    /\ UNCHANGED <<ledger, now, Files, fmt, cli, torn, written, reader>>

\* mutant: the window closed at its upper end
ShouldCapture_Inclusive(segment_start, interval) ==
    IntSeconds(segment_start) % interval <= ScreenshotWindow

\* mutant: a capture for every segment with text
ShouldCapture_Always(segment_start, interval) == TRUE

\* int(segment_start) % timestamp_interval < 5
ShouldCapture(segment_start, interval) ==
    IntSeconds(segment_start) % interval < ScreenshotWindow

ZeroPad6(n) ==
    IF n < 10 THEN "00000" \o ToString(n)
    ELSE IF n < 100 THEN "0000" \o ToString(n)
    ELSE IF n < 1000 THEN "000" \o ToString(n)
    ELSE IF n < 10000 THEN "00" \o ToString(n)
    ELSE IF n < 100000 THEN "0" \o ToString(n)
    ELSE ToString(n)

\* mutant: the file named after the offset without truncation to a second
ScreenshotName_PerTick(segment_start) ==
    "screenshot_" \o ZeroPad6(segment_start) \o ".jpg"

\* f"screenshot_{int(segment_start):06d}.jpg"
ScreenshotName(segment_start) ==
    "screenshot_" \o ZeroPad6(IntSeconds(segment_start)) \o ".jpg"

\* what utils.extract_screenshot can do: raise when the video is gone, return
\* False when ffmpeg exits non-zero or leaves no image, True otherwise
ExtractScreenshotOutcomes(video_exists) ==
    IF video_exists THEN {"true", "ffmpeg_error", "no_image"}
    ELSE {"no_video"}

\* screenshots[timestamp] = screenshot_path
RecordScreenshot(screenshots, timestamp, path) == DictSet(screenshots, timestamp, path)

\* history: a segment handled in chunk w.i: its absolute offset, its
\* stripped text, whether a capture was called and how the call ended
\* ("none" without a call), whether the call raised, and whether the
\* segment was appended to the transcript
LogEntry(w, at, text, outcome, raised, appended) ==
    [chunk |-> w.i, at |-> at, text |-> text, attempted |-> outcome # "none",
     outcome |-> outcome, raised |-> raised, appended |-> appended,
     file |-> IF outcome = "none" THEN "" ELSE "screenshots/" \o ScreenshotName(at)]

\* mutant: the offset inside the chunk taken for the offset in the video
SegmentStart_InChunk(segment, start_time) == segment.start

\* segment_start = segment.get('start', 0) + start_time
SegmentStart(segment, start_time) == segment.start + Sec(start_time)

\* one turn of `for segment in segments`
Segment(j) ==
    /\ W(j).pc = "segment"
    /\ W(j).segments # <<>>
    /\ LET w == W(j)
           segment == Head(w.segments)
           segment_start == SegmentStart(segment, w.start_times[w.i + 1])
           segment_text == Strip(segment.text)
           timestamp == format_timestamp(segment_start)
           rest == [w EXCEPT !.segments = Tail(@)]
       IN  IF segment_text = <<>>
           THEN Goto(j, [rest EXCEPT !.log = Append(@,
                    LogEntry(w, segment_start, segment_text, "none", FALSE, FALSE))])
           ELSE IF ~ShouldCapture(segment_start, w.timestamp_interval)
           THEN Goto(j, [rest EXCEPT
                    !.timestamped_chunks = Append(@, <<timestamp, segment_text>>),
                    !.log = Append(@,
                        LogEntry(w, segment_start, segment_text, "none", FALSE, TRUE))])
           ELSE \E outcome \in ExtractScreenshotOutcomes(j \in temp_processing) :
                  IF outcome = "no_video"
                  THEN Goto(j, [AfterChunkError(w) EXCEPT !.aborted_chunks = @ + 1,
                           !.log = Append(@,
                               LogEntry(w, segment_start, segment_text, outcome, TRUE, FALSE))])
                  ELSE Goto(j, [rest EXCEPT
                           !.screenshots =
                               IF outcome = "true"
                               THEN RecordScreenshot(@, timestamp,
                                        "screenshots/" \o ScreenshotName(segment_start))
                               ELSE @,
                           !.timestamped_chunks = Append(@, <<timestamp, segment_text>>),
                           !.log = Append(@,
                               LogEntry(w, segment_start, segment_text, outcome, FALSE, TRUE))])
    /\ UNCHANGED <<ledger, now, Files, fmt, cli, torn, written, reader>>

\* the segments are done: "Transcribed chunk i+1/n"
ChunkDone(j) ==
    /\ W(j).pc = "segment"
    /\ W(j).segments = <<>>
    /\ Report(j, [W(j) EXCEPT !.i = @ + 1],
              "Transcribed chunk " \o ChunkLabel(W(j)),
              TranscribedProgress(W(j).current_progress, W(j).progress_per_chunk),
              "chunk_begin")
    /\ UNCHANGED <<Files, fmt, cli, torn, written, reader>>

PVFinished(j) ==
    /\ W(j).pc = "chunk_begin"
    /\ W(j).i = Len(W(j).start_times)
    /\ Report(j, W(j), "Finished transcription", FinishedProgress, "copy")
    /\ UNCHANGED <<Files, fmt, cli, torn, written, reader>>


(***************************************************************************)
(* The persistent copies, and the output stage of process_video_thread.    *)
(***************************************************************************)
\* os.makedirs(dir, exist_ok=True) on output/<job_id>
MakeOutputDir(out, j) == IF j \in DOMAIN out THEN out ELSE DictSet(out, j, EmptyDict)

\* a file written into output/<job_id>
WriteOutput(out, j, name, content) == DictSet(out, j, DictSet(out[j], name, content))

\* os.path.basename of a path under screenshots/
Basename(path, names) == CHOOSE n \in names : path = "screenshots/" \o n

ScreenshotNames(w) ==
    { ScreenshotName(w.log[k].at) : k \in 1..Len(w.log) }

\* the loop over screenshots.items(): shutil.copy2 succeeds for the labels in
\* copied and raises, caught, for the others
CopyScreenshots(j) ==
    /\ W(j).pc = "copy"
    /\ \E copied \in SUBSET DOMAIN W(j).screenshots :
         LET w == W(j)
             name(ts) == Basename(w.screenshots[ts], ScreenshotNames(w))
             dir == MakeOutputDir(output, j)
         IN  /\ Goto(j, [w EXCEPT !.pc = "copied",
                           !.persistent_screenshots =
                               [ts \in copied |->
                                   "output/" \o j \o "/" \o name(ts)]])
             /\ output' = [dir EXCEPT ![j] =
                              [f \in DOMAIN dir[j] \cup {name(ts) : ts \in copied}
                                  |-> IF f \in {name(ts) : ts \in copied}
                                      THEN "image" ELSE dir[j][f]]]
    /\ UNCHANGED <<ledger, now, temp_processing, fmt, cli, torn, written, reader>>

\* "Saved screenshots"; the temporary directory goes; process_video returns
PVSaved(j) ==
    /\ W(j).pc = "copied"
    /\ Report(j, W(j), "Saved screenshots", Whole(95), "job_dir")
    /\ UNCHANGED <<Files, fmt, cli, torn, written, reader>>

\* os.makedirs(job_dir); "Saving text transcript..."
SavingText(j) ==
    /\ W(j).pc = "job_dir"
    /\ output' = MakeOutputDir(output, j)
    /\ Report(j, W(j), "Saving text transcript...", Whole(95), "save_txt")
    /\ UNCHANGED <<temp_processing, fmt, cli, torn, written, reader>>

\* f"[{timestamp}] {text}\n\n"
TextEntry(timestamp, text) ==
    <<"[">> \o timestamp \o <<"]", " ">> \o text \o <<"\n", "\n">>

\* what save_transcript_to_text writes into the file
RECURSIVE RenderText(_)
RenderText(chunks) ==
    IF chunks = <<>> THEN <<>>
    ELSE TextEntry(Head(chunks)[1], Head(chunks)[2]) \o RenderText(Tail(chunks))

\* pdf_generator.save_transcript_to_text: writes the file and returns True,
\* or catches the failure and returns False; the caller drops the result
SaveTranscript(j) ==
    /\ W(j).pc = "save_txt"
    /\ \E ok \in BOOLEAN :
         /\ output' = IF ok
                      THEN WriteOutput(MakeOutputDir(output, j), j, "transcript.txt",
                                       RenderText(W(j).timestamped_chunks))
                      ELSE output
         /\ Goto(j, [W(j) EXCEPT !.pc = "pdf_status",
                       !.txt_saved = IF ok THEN "true" ELSE "false"])
    /\ UNCHANGED <<ledger, now, temp_processing, fmt, cli, torn, written, reader>>

CreatingPdf(j) ==
    /\ W(j).pc = "pdf_status"
    /\ Report(j, W(j), "Creating PDF with screenshots...", Whole(98), "make_pdf")
    /\ UNCHANGED <<Files, fmt, cli, torn, written, reader>>

\* the entries of the PDF: the label, whether an image is embedded (a path
\* recorded for the label and the file there), the text
PdfEntries(chunks, screenshot_paths, files) ==
    [k \in 1..Len(chunks) |->
        [timestamp |-> chunks[k][1],
         image |-> /\ chunks[k][1] \in DOMAIN screenshot_paths
                   /\ \E f \in files :
                        screenshot_paths[chunks[k][1]] = "output/" \o f,
         text |-> chunks[k][2]]]

\* pdf_generator.create_pdf_with_screenshots: the document is built (an
\* exception there is not caught), then saved (a failure there is, and False
\* returned); the caller drops the result
CreatePdf(j) ==
    /\ W(j).pc = "make_pdf"
    /\ \E outcome \in {"true", "false", "raise"} :
         /\ output' =
              IF outcome = "true"
              THEN WriteOutput(MakeOutputDir(output, j), j, "transcript.pdf",
                       PdfEntries(W(j).timestamped_chunks,
                                  W(j).persistent_screenshots,
                                  { j \o "/" \o f :
                                      f \in DOMAIN MakeOutputDir(output, j)[j] }))
              ELSE output
         /\ IF outcome = "raise"
            THEN Raise(j, W(j), "FPDF error")
            ELSE Goto(j, [W(j) EXCEPT !.pc = "complete", !.pdf_saved = outcome])
    /\ UNCHANGED <<ledger, now, temp_processing, fmt, cli, torn, written, reader>>

\* the record Completed is written with
CompletedRecord(j, w) ==
    LET d1 == DictSet(load_job_status(j), "status", "Completed")
        d2 == DictSet(d1, "progress", Whole(100))
        d3 == DictSet(d2, "completed_at", now)
        d4 == DictSet(d3, "txt_path", "output/" \o j \o "/transcript.txt")
        d5 == DictSet(d4, "pdf_path", "output/" \o j \o "/transcript.pdf")
        d6 == DictSet(d5, "num_screenshots", Cardinality(DOMAIN w.persistent_screenshots))
    IN  DictSet(d6, "num_segments", Len(w.timestamped_chunks))

\* mutant: a statement after the Completed write raises inside the try
Complete_ThenRaises(j) ==
    /\ W(j).pc = "complete"
    /\ save_job_status(j, CompletedRecord(j, W(j)))
    /\ now' = now + 1
    /\ Goto(j, [W(j) EXCEPT !.pc = "except", !.error = "FPDF error",
                  !.prev_progress = W(j).last_progress,
                  !.last_progress = Whole(100), !.wrote_completed = TRUE])
    /\ UNCHANGED <<Files, fmt, cli, torn, written, reader>>

Complete(j) ==
    /\ W(j).pc = "complete"
    /\ save_job_status(j, CompletedRecord(j, W(j)))
    /\ now' = now + 1
    /\ Goto(j, [W(j) EXCEPT !.pc = "done", !.prev_progress = W(j).last_progress,
                  !.last_progress = Whole(100), !.wrote_completed = TRUE])
    /\ UNCHANGED <<Files, fmt, cli, torn, written, reader>>

\* the status a failure is reported with: f"Failed: {str(e)}"
FailedStatus(msg) == "Failed: " \o msg

\* mutant: the message kept in the status only
FailedRecord_StatusOnly(j, w) ==
    DictSet(load_job_status(j), "status", FailedStatus(w.error))

\* the record the except clause writes
FailedRecord(j, w) ==
    DictSet(DictSet(load_job_status(j), "status", FailedStatus(w.error)),
            "error", w.error)

\* except Exception as e (app.py:97)
HandleException(j) ==
    /\ W(j).pc = "except"
    /\ save_job_status(j, FailedRecord(j, W(j)))
    /\ Goto(j, [W(j) EXCEPT !.pc = "done"])
    /\ UNCHANGED <<now, Files, fmt, cli, torn, written, reader>>

(***************************************************************************)
(* video_to_text.main, the command-line pipeline.  It has its own copies   *)
(* of the helpers: none of its ffmpeg calls is wrapped in a try, so a      *)
(* non-zero exit raises CalledProcessError from each of them.              *)
(***************************************************************************)
IdleCli ==
    [pc |-> "idle", video |-> NoVideo, chunk_duration |-> 0,
     timestamp_interval |-> 0, skip_ollama |-> FALSE, skip_pdf |-> FALSE,
     audio_chunks |-> <<>>, start_times |-> <<>>, i |-> 0, num_chunks |-> 0,
     segments |-> <<>>, raw_transcription |-> <<>>, timestamped_chunks |-> <<>>,
     screenshots |-> EmptyDict,
     \* the files at output_path and output_pdf_path; "absent" before they exist
     out_file |-> "absent", pdf_file |-> "absent",
     \* history, read by no action
     transcribed |-> <<>>, log |-> <<>>, improved |-> <<>>]

\* an exception nothing catches: the traceback, and the process ends
CliCrash(c) == cli' = [c EXCEPT !.pc = "crashed"]

\* the arguments, and the connection test: when ollama.list() raises,
\* skip_ollama is set
CliStart(video, cd, ti, skip_ollama, skip_pdf) ==
    /\ cli.pc = "idle"
    /\ \E ollama_up \in BOOLEAN :
         cli' = [IdleCli EXCEPT !.pc = "extract", !.video = video,
                   !.chunk_duration = cd, !.timestamp_interval = ti,
                   !.skip_ollama = skip_ollama \/ ~ollama_up,
                   !.skip_pdf = skip_pdf]
    /\ UNCHANGED <<ledger, temp_processing, output, worker, now, fmt, torn, written, reader>>

CliRest == <<ledger, temp_processing, output, worker, now, fmt, torn, written, reader>>

CliExtractAudio ==
    /\ cli.pc = "extract"
    /\ \E ok \in BOOLEAN :
         IF ok THEN cli' = [cli EXCEPT !.pc = "convert"] ELSE CliCrash(cli)
    /\ UNCHANGED CliRest

CliConvertAudio ==
    /\ cli.pc = "convert"
    /\ \E ok \in BOOLEAN :
         IF ok THEN cli' = [cli EXCEPT !.pc = "probe"] ELSE CliCrash(cli)
    /\ UNCHANGED CliRest

\* video_to_text.split_audio_into_chunks: int(duration / chunk_duration) + 1
CliNumChunks(duration, cd) == (duration \div (TicksPerSec * cd)) + 1

CliProbe ==
    /\ cli.pc = "probe"
    /\ \E ok \in BOOLEAN :
         IF ok
         THEN cli' = [cli EXCEPT !.pc = "carve", !.audio_chunks = <<>>,
                        !.start_times = <<>>, !.i = 0,
                        !.num_chunks = CliNumChunks(cli.video.duration,
                                                    cli.chunk_duration)]
         ELSE CliCrash(cli)
    /\ UNCHANGED CliRest

CliCarve ==
    /\ cli.pc = "carve"
    /\ cli.i < cli.num_chunks
    /\ \E ok \in BOOLEAN :
         IF ok
         THEN cli' = [cli EXCEPT
                        !.audio_chunks = Append(@, ChunkPath(cli.i)),
                        !.start_times = Append(@, cli.i * cli.chunk_duration),
                        !.i = @ + 1]
         ELSE CliCrash(cli)
    /\ UNCHANGED CliRest

\* the split returns; open(output_path, 'w') leaves an empty file
CliOpenOutput ==
    /\ cli.pc = "carve"
    /\ cli.i = cli.num_chunks
    /\ cli' = [cli EXCEPT !.pc = "transcribe", !.i = 0, !.out_file = <<>>,
                 !.timestamped_chunks = <<>>, !.screenshots = EmptyDict]
    /\ UNCHANGED CliRest

\* result["text"]: the texts of the segments, one after the other
RECURSIVE JoinTexts(_)
JoinTexts(segs) ==
    IF segs = <<>> THEN <<>> ELSE Head(segs).text \o JoinTexts(Tail(segs))

\* the `continue` of the loop's except clause
CliNextChunk(c) == [c EXCEPT !.pc = "transcribe", !.i = @ + 1, !.segments = <<>>]

CliTranscribe ==
    /\ cli.pc = "transcribe"
    /\ cli.i < Len(cli.start_times)
    /\ LET c == [cli EXCEPT !.transcribed = Append(@, cli.i)]
       IN  \E ok \in BOOLEAN :
             IF ok
             THEN LET segs == Whisper(c.video, c.i, c.chunk_duration)
                  IN  cli' = [c EXCEPT
                                !.pc = IF segs # <<>> THEN "segment" ELSE "fallback",
                                !.segments = segs,
                                !.raw_transcription = JoinTexts(segs)]
             ELSE cli' = CliNextChunk(c)
    /\ UNCHANGED CliRest

\* what video_to_text.extract_screenshot can do: subprocess.run(check=True)
\* raises on a non-zero exit; False for no image; True
CliExtractScreenshotOutcomes == {"true", "ffmpeg_error", "no_image"}

\* whether a capture outcome leaves extract_screenshot by an exception
CliCaptureRaises(outcome) == outcome = "ffmpeg_error"

\* the text the language model answers with: the text reworked on one line,
\* or an answer in two paragraphs
OllamaResponse(text, outcome) ==
    IF outcome = "paragraphs" THEN text \o <<"\n", "\n", "*">>
    ELSE text \o <<"*">>

\* how a call of ollama.generate can end: an answer ("ok", or "paragraphs"
\* for one holding a blank line), a service that cannot be reached or has no
\* such model, an answer without the 'response' field
OllamaAnswers == {"ok", "paragraphs"}

OllamaOutcomes == OllamaAnswers \cup {"unreachable", "malformed"}

\* mutant: a failed call hands back what it has, nothing
improve_transcription_with_ollama_NoFallback(transcription, outcome) ==
    IF transcription = <<>> THEN [raised |-> TRUE, value |-> <<>>]
    ELSE IF outcome \in OllamaAnswers
    THEN [raised |-> FALSE, value |-> OllamaResponse(transcription, outcome)]
    ELSE [raised |-> FALSE, value |-> <<>>]

\* improve_transcription_with_ollama: ValueError for an empty text; the call
\* and the read of the answer are in a try that returns the text as it was
improve_transcription_with_ollama(transcription, outcome) ==
    IF transcription = <<>> THEN [raised |-> TRUE, value |-> <<>>]
    ELSE IF outcome \in OllamaAnswers
    THEN [raised |-> FALSE, value |-> OllamaResponse(transcription, outcome)]
    ELSE [raised |-> FALSE, value |-> transcription]

\* the caller's try (video_to_text.py:388-396, 410-420): the text stays as it
\* was when the call raises or is skipped
ImprovedText(text, skip_ollama, outcome) ==
    IF skip_ollama THEN text
    ELSE LET r == improve_transcription_with_ollama(text, outcome)
         IN  IF r.raised THEN text ELSE r.value

\* history: a text handed to the correction stage, what came back into the
\* transcript, how the call ended ("skipped" without a call, "empty" for
\* the ValueError), and whether the entry was then appended
ImprovedEntry(raw, text, skip_ollama, outcome, appended) ==
    [raw |-> raw, text |-> text, appended |-> appended,
     outcome |-> IF skip_ollama THEN "skipped"
                 ELSE IF raw = <<>> THEN "empty" ELSE outcome]

\* timestamped_chunks.append(...); f.write(entry)
CliAppend(c, timestamp, text) ==
    [c EXCEPT !.timestamped_chunks = Append(@, <<timestamp, text>>),
              !.out_file = @ \o TextEntry(timestamp, text)]

\* one turn of `for segment in segments` (video_to_text.py:372)
CliSegment ==
    /\ cli.pc = "segment"
    /\ cli.segments # <<>>
    /\ LET c == cli
           segment == Head(c.segments)
           segment_start == SegmentStart(segment, c.start_times[c.i + 1])
           segment_text == Strip(segment.text)
           timestamp == format_timestamp(segment_start)
           rest == [c EXCEPT !.segments = Tail(@)]
       IN  IF segment_text = <<>>
           THEN cli' = [rest EXCEPT !.log = Append(@,
                    LogEntry(c, segment_start, segment_text, "none", FALSE, FALSE))]
           ELSE \E outcome \in
                      IF ShouldCapture(segment_start, c.timestamp_interval)
                      THEN CliExtractScreenshotOutcomes ELSE {"none"} :
                  IF CliCaptureRaises(outcome)
                  THEN cli' = [CliNextChunk(c) EXCEPT !.log = Append(@,
                             LogEntry(c, segment_start, segment_text, outcome, TRUE, FALSE))]
                  ELSE \E answer \in OllamaOutcomes :
                       LET text == ImprovedText(segment_text, c.skip_ollama, answer)
                       IN
                       cli' = [CliAppend(rest, timestamp, text) EXCEPT
                           !.screenshots =
                               IF outcome = "true"
                               THEN RecordScreenshot(@, timestamp,
                                        "screenshots/" \o ScreenshotName(segment_start))
                               ELSE @,
                           !.improved = Append(@,
                               ImprovedEntry(segment_text, text, c.skip_ollama, answer, TRUE)),
                           !.log = Append(@,
                               LogEntry(c, segment_start, segment_text, outcome, FALSE, TRUE))]
    /\ UNCHANGED CliRest

CliSegmentsDone ==
    /\ cli.pc = "segment"
    /\ cli.segments = <<>>
    /\ cli' = CliNextChunk(cli)
    /\ UNCHANGED CliRest

\* no segments (video_to_text.py:405): one entry at the start of the chunk,
\* with a capture whatever the interval
CliFallback ==
    /\ cli.pc = "fallback"
    /\ LET c == cli
           start_time == Sec(c.start_times[c.i + 1])
           timestamp == format_timestamp(start_time)
       IN  \E answer \in OllamaOutcomes,
              outcome \in CliExtractScreenshotOutcomes :
             LET text == ImprovedText(c.raw_transcription, c.skip_ollama, answer)
                 called(appended) ==
                     ImprovedEntry(c.raw_transcription, text, c.skip_ollama,
                                   answer, appended)
             IN  IF CliCaptureRaises(outcome)
                 THEN cli' = [CliNextChunk(c) EXCEPT
                          !.improved = Append(@, called(FALSE))]
                 ELSE cli' = [CliNextChunk(CliAppend(c, timestamp, text)) EXCEPT
                          !.improved = Append(@, called(TRUE)),
                          !.screenshots =
                              IF outcome = "true"
                              THEN RecordScreenshot(@, timestamp,
                                       "screenshots/" \o ScreenshotName(start_time))
                              ELSE @]
    /\ UNCHANGED CliRest

\* the loop is over and the transcript closed
CliLoopEnd ==
    /\ cli.pc = "transcribe"
    /\ cli.i = Len(cli.start_times)
    /\ cli' = [cli EXCEPT !.pc = IF cli.skip_pdf THEN "done" ELSE "pdf"]
    /\ UNCHANGED CliRest

\* video_to_text.create_pdf_with_screenshots: building the document may
\* raise, saving it is in a try
CliCreatePdf ==
    /\ cli.pc = "pdf"
    /\ \E outcome \in {"true", "false", "raise"} :
         IF outcome = "raise" THEN CliCrash(cli)
         ELSE cli' = [cli EXCEPT !.pc = "done",
                        !.pdf_file =
                            IF outcome = "true"
                            THEN PdfEntries(cli.timestamped_chunks, EmptyDict, {})
                            ELSE @]
    /\ UNCHANGED CliRest

(***************************************************************************)
(* The interactive application: submissions, deletions and the workers.    *)
(***************************************************************************)
\* load_job_status found no file
NoValue == [kind |-> "None", data |-> EmptyDict]

IdleReader ==
    [pc |-> "idle", op |-> "", job |-> "", todo |-> {}, loaded |-> EmptyDict,
     value |-> NoValue, jobs |-> <<>>,
     \* history: whether the file was being written when it was read
     read_torn |-> FALSE]

NothingWritten == [j \in AllJobIds |-> {}]

IdleFmt == [pc |-> "idle", seconds |-> 0, label |-> <<>>]

Init ==
    /\ ledger = EmptyDict
    /\ temp_processing = {}
    /\ output = EmptyDict
    /\ worker = [j \in AllJobIds |-> IdleWorker]
    /\ now = 0
    /\ fmt = IdleFmt
    /\ cli = IdleCli
    /\ torn = {}
    /\ written = NothingWritten
    /\ reader = IdleReader

\* The application and the command-line program are two processes that
\* share no file and no state: a behaviour runs one of them.
AppIdle == \A j \in AllJobIds : worker[j].pc = "idle" /\ j \notin DOMAIN ledger
CliIdle == cli.pc = "idle"

AppNext ==
    \E j \in JobIds :
        \/ \E video \in Videos, cd \in ChunkDurations, ti \in Intervals :
              CliIdle /\ Submit(j, video, cd, ti)
        \/ delete_job(j)
        \/ ThreadStart(j)
        \/ PVStart(j)
        \/ PVTempDir(j)
        \/ ExtractAudio(j)
        \/ PVExtracted(j)
        \/ ConvertAudio(j)
        \/ PVConverted(j)
        \/ Probe(j)
        \/ Carve(j)
        \/ PVSplit(j)
        \/ ChunkBegin(j)
        \/ Transcribe(j)
        \/ Segment(j)
        \/ ChunkDone(j)
        \/ PVFinished(j)
        \/ CopyScreenshots(j)
        \/ PVSaved(j)
        \/ SavingText(j)
        \/ SaveTranscript(j)
        \/ CreatingPdf(j)
        \/ CreatePdf(j)
        \/ Complete(j)
        \/ HandleException(j)

(***************************************************************************)
(* SpecLive: the interactive application with every call of a worker       *)
(* returning or raising: a worker that can take a step eventually takes    *)
(* one.  Nothing is assumed of the front end.                              *)
(***************************************************************************)
\* a step of process_video_thread for job j
WorkerStep(j) ==
    \/ ThreadStart(j) \/ PVStart(j) \/ PVTempDir(j) \/ ExtractAudio(j)
    \/ PVExtracted(j) \/ ConvertAudio(j) \/ PVConverted(j) \/ Probe(j)
    \/ Carve(j) \/ PVSplit(j) \/ ChunkBegin(j) \/ Transcribe(j)
    \/ Segment(j) \/ ChunkDone(j) \/ PVFinished(j) \/ CopyScreenshots(j)
    \/ PVSaved(j) \/ SavingText(j) \/ SaveTranscript(j) \/ CreatingPdf(j)
    \/ CreatePdf(j) \/ Complete(j) \/ HandleException(j)

SpecLive == Init /\ [][AppNext]_vars /\ \A j \in JobIds : WF_vars(WorkerStep(j))

(***************************************************************************)
(* SpecJobs: two jobs at once on the short clip; a job is deleted only     *)
(* while its worker is not running.                                        *)
(***************************************************************************)
AtRest(j) == W(j).pc \in {"idle", "done"}

\* identifiers are interchangeable: the second one names the later job
InTurn(j) == j \in JobIds \/ \A k \in JobIds : W(k).pc # "idle"

NextJobs ==
    \E j \in AllJobIds :
        \/ InTurn(j) /\ Submit(j, VideoBrief, 60, 10)
        \/ AtRest(j) /\ delete_job(j)
        \/ ThreadStart(j)
        \/ PVStart(j)
        \/ PVTempDir(j)
        \/ ExtractAudio(j)
        \/ PVExtracted(j)
        \/ ConvertAudio(j)
        \/ PVConverted(j)
        \/ Probe(j)
        \/ Carve(j)
        \/ PVSplit(j)
        \/ ChunkBegin(j)
        \/ Transcribe(j)
        \/ Segment(j)
        \/ ChunkDone(j)
        \/ PVFinished(j)
        \/ CopyScreenshots(j)
        \/ PVSaved(j)
        \/ SavingText(j)
        \/ SaveTranscript(j)
        \/ CreatingPdf(j)
        \/ CreatePdf(j)
        \/ Complete(j)
        \/ HandleException(j)

SpecJobs == Init /\ [][NextJobs]_vars

\* sizes and interval of a command-line run (--chunk-duration,
\* --timestamp-interval)
CliVideos == {VideoTalk, VideoExact}
CliChunkDurations == {60}
CliIntervals == {10}

CliNext ==
    \/ \E video \in CliVideos, cd \in CliChunkDurations, ti \in CliIntervals,
          skip_ollama \in BOOLEAN, skip_pdf \in BOOLEAN :
          AppIdle /\ CliStart(video, cd, ti, skip_ollama, skip_pdf)
    \/ CliExtractAudio
    \/ CliConvertAudio
    \/ CliProbe
    \/ CliCarve
    \/ CliOpenOutput
    \/ CliTranscribe
    \/ CliSegment
    \/ CliSegmentsDone
    \/ CliFallback
    \/ CliLoopEnd
    \/ CliCreatePdf

Next == AppNext \/ CliNext

Spec == Init /\ [][Next]_vars


(***************************************************************************)
(* SpecSplit: the splitter alone, entered with every audio length up to    *)
(* MaxSplitTicks and every chunk duration up to MaxSplitDur, in the        *)
(* worker of a job and in the command-line run.                            *)
(***************************************************************************)
SplitVideo(L) == [name |-> "clip.mp4", duration |-> L, speech |-> <<>>]

\* the record of a job whose worker is about to split
SplitEntryRecord(j, video, cd, ti) ==
    [job_id |-> j, filename |-> video.name,
     status |-> "Converted audio to WAV format", progress |-> Whole(15),
     created_at |-> 0, updated_at |-> 5,
     settings |-> [chunk_duration |-> cd, timestamp_interval |-> ti,
                   whisper_model |-> "base"]]

InitSplit ==
    \E L \in 0..MaxSplitTicks, cd \in 1..MaxSplitDur, app \in BOOLEAN :
        LET j == CHOOSE x \in JobIds : TRUE
            w == [IdleWorker EXCEPT !.pc = "probe", !.video = SplitVideo(L),
                    !.chunk_duration = cd, !.timestamp_interval = 10,
                    !.prev_progress = Whole(10), !.last_progress = Whole(15)]
            c == [IdleCli EXCEPT !.pc = "probe", !.video = SplitVideo(L),
                    !.chunk_duration = cd, !.timestamp_interval = 10]
        IN  /\ ledger = IF app THEN DictSet(EmptyDict, j,
                                        SplitEntryRecord(j, SplitVideo(L), cd, 10))
                        ELSE EmptyDict
            /\ temp_processing = IF app THEN {j} ELSE {}
            /\ output = EmptyDict
            /\ worker = [x \in AllJobIds |-> IF app /\ x = j THEN w ELSE IdleWorker]
            /\ now = IF app THEN 6 ELSE 0
            /\ fmt = IdleFmt
            /\ cli = IF app THEN IdleCli ELSE c
            /\ torn = {}
            /\ written = NothingWritten
            /\ reader = IdleReader

NextSplit ==
    \/ \E j \in JobIds : Probe(j)
    \/ \E j \in JobIds : Carve(j)
    \/ \E j \in JobIds : PVSplit(j)
    \/ CliProbe
    \/ CliCarve
    \/ CliOpenOutput

SpecSplit == InitSplit /\ [][NextSplit]_vars

(***************************************************************************)
(* SpecFormat: format_timestamp alone, on offsets around the minute, the   *)
(* hour, ten hours, one day and two days.                                  *)
(***************************************************************************)
FormatSeconds ==
    (0..2) \cup UNION { {b - 1, b, b + 1, b + 59, b + 61} :
                          b \in {60, 600, 3600, 36000, 86400, 172800} }

FormatInputs == { Sec(s) + f : s \in FormatSeconds, f \in 0..(TicksPerSec - 1) }

InitFormat ==
    /\ ledger = EmptyDict
    /\ temp_processing = {}
    /\ output = EmptyDict
    /\ worker = [j \in AllJobIds |-> IdleWorker]
    /\ now = 0
    /\ cli = IdleCli
    /\ torn = {}
    /\ written = NothingWritten
    /\ reader = IdleReader
    /\ \E t \in FormatInputs : fmt = [pc |-> "call", seconds |-> t, label |-> <<>>]

FormatCall ==
    /\ fmt.pc = "call"
    /\ fmt' = [fmt EXCEPT !.pc = "returned", !.label = format_timestamp(fmt.seconds)]
    /\ UNCHANGED <<ledger, temp_processing, output, worker, now, cli, torn, written, reader>>

NextFormat == FormatCall

SpecFormat == InitFormat /\ [][NextFormat]_vars

(***************************************************************************)
(* SpecLedger: the front end reads the job records while the workers of    *)
(* two jobs overwrite them.  save_job_status opens the file with mode 'w', *)
(* which empties it, and the text is all there only when the file is       *)
(* closed; in between the job is in `torn`.                                *)
(***************************************************************************)
\* the first progress reports of a worker (app.py:58, transcriber.py:28,33)
ReportAt(pc) ==
    CASE pc = "start" ->
           [text |-> "Starting processing...", progress |-> Whole(0), next |-> "pv_start"]
      [] pc = "pv_start" ->
           [text |-> "Starting video processing...", progress |-> Whole(0), next |-> "pv_tempdir"]
      [] pc = "pv_tempdir" ->
           [text |-> "Created temporary directory", progress |-> Whole(5), next |-> "extract"]

ReportingPcs == {"start", "pv_start", "pv_tempdir"}

\* update_job_progress up to open(job_file, 'w') of save_job_status
SaveOpen(j) ==
    /\ W(j).pc \in ReportingPcs
    /\ j \notin torn
    /\ save_job_status(j, UpdatedRecord(j, ReportAt(W(j).pc).text,
                                        ReportAt(W(j).pc).progress))
    /\ torn' = torn \cup {j}
    /\ now' = now + 1
    /\ UNCHANGED <<Files, worker, fmt, cli, written, reader>>

\* the end of the with block: the text is flushed and the file closed
SaveClose(j) ==
    /\ W(j).pc \in ReportingPcs
    /\ j \in torn
    /\ torn' = torn \ {j}
    /\ written' = [written EXCEPT ![j] = @ \cup {ledger[j]}]
    /\ Goto(j, [W(j) EXCEPT !.pc = ReportAt(W(j).pc).next,
                  !.prev_progress = W(j).last_progress,
                  !.last_progress = ReportAt(W(j).pc).progress])
    /\ UNCHANGED <<ledger, now, Files, fmt, cli, reader>>

\* the placeholders load_job_status returns
InvalidFormat == [status |-> "Error", error |-> "Invalid job file format"]
LoadError(e) == [status |-> "Error", error |-> e]

\* open(job_file, 'r') and json.load: the text of a file that is being
\* written is not a JSON document
json_load(job_id) ==
    IF job_id \notin DOMAIN ledger THEN "FileNotFoundError"
    ELSE IF job_id \in torn THEN "JSONDecodeError"
    ELSE "ok"

\* mutant: a parse failure is not caught
LoadOutcome_Unguarded(job_id) ==
    CASE json_load(job_id) = "ok" ->
           [raised |-> FALSE, kind |-> "record", data |-> ledger[job_id]]
      [] json_load(job_id) = "JSONDecodeError" ->
           [raised |-> TRUE, kind |-> "None", data |-> EmptyDict]
      [] OTHER ->
           [raised |-> FALSE, kind |-> "placeholder",
            data |-> LoadError("No such file or directory")]

\* the try block of load_job_status with its two except clauses
LoadOutcome(job_id) ==
    CASE json_load(job_id) = "ok" ->
           [raised |-> FALSE, kind |-> "record", data |-> ledger[job_id]]
      [] json_load(job_id) = "JSONDecodeError" ->
           [raised |-> FALSE, kind |-> "placeholder", data |-> InvalidFormat]
      [] OTHER ->
           [raised |-> FALSE, kind |-> "placeholder",
            data |-> LoadError("No such file or directory")]

ReaderRest == <<ledger, temp_processing, output, worker, now, fmt, cli, torn, written>>

\* the front end calls load_job_status(j)
LoadCall(j) ==
    /\ reader.pc = "idle"
    /\ reader' = [IdleReader EXCEPT !.pc = "exists", !.op = "load", !.job = j]
    /\ UNCHANGED ReaderRest

\* the front end calls list_jobs: os.listdir(jobs_dir)
ListCall ==
    /\ reader.pc = "idle"
    /\ reader' = [IdleReader EXCEPT !.pc = "next", !.op = "list",
                    !.todo = DOMAIN ledger]
    /\ UNCHANGED ReaderRest

\* the for loop of list_jobs: the next file, or the sorted entries
ListNext ==
    /\ reader.pc = "next"
    /\ IF reader.todo = {}
       THEN reader' = [reader EXCEPT !.pc = "returned",
                         !.jobs = ListJobs(reader.loaded)]
       ELSE \E j \in reader.todo :
              reader' = [reader EXCEPT !.pc = "exists", !.job = j,
                           !.todo = @ \ {j}]
    /\ UNCHANGED ReaderRest

\* the value load_job_status returns goes to its caller
Deliver(r, v) ==
    IF r.op = "load" THEN [r EXCEPT !.pc = "returned", !.value = v]
    ELSE IF v.kind = "None" THEN [r EXCEPT !.pc = "next"]
    ELSE [r EXCEPT !.pc = "next", !.loaded = DictSet(@, r.job, v.data)]

\* load_job_status: os.path.exists(job_file)
LoadExists ==
    /\ reader.pc = "exists"
    /\ reader' = IF reader.job \in DOMAIN ledger
                 THEN [reader EXCEPT !.pc = "open"]
                 ELSE Deliver(reader, NoValue)
    /\ UNCHANGED ReaderRest

\* load_job_status: the try block
LoadRead ==
    /\ reader.pc = "open"
    /\ LET out == LoadOutcome(reader.job)
           r == [reader EXCEPT !.read_torn = @ \/ reader.job \in torn]
       IN  reader' = IF out.raised THEN [r EXCEPT !.pc = "raised"]
                     ELSE Deliver(r, [kind |-> out.kind, data |-> out.data])
    /\ UNCHANGED ReaderRest

\* the front end has its answer; the next script run reads again
ReaderReturn ==
    /\ reader.pc = "returned"
    /\ reader' = IdleReader
    /\ UNCHANGED ReaderRest

\* two jobs submitted, their workers started
InitLedger ==
    /\ now = 2
    /\ ledger = [j \in AllJobIds |->
                   [NewJobRecord(j, VideoBrief, 60, 10) EXCEPT
                      !.created_at = IF j \in JobIds THEN 0 ELSE 1]]
    /\ temp_processing = AllJobIds
    /\ output = EmptyDict
    /\ worker = [j \in AllJobIds |->
                   [IdleWorker EXCEPT !.pc = "start", !.video = VideoBrief,
                      !.chunk_duration = 60, !.timestamp_interval = 10]]
    /\ fmt = IdleFmt
    /\ cli = IdleCli
    /\ torn = {}
    /\ written = [j \in AllJobIds |-> {ledger[j]}]
    /\ reader = IdleReader

NextLedger ==
    \/ \E j \in AllJobIds :
        \/ SaveOpen(j)
        \/ SaveClose(j)
        \/ LoadCall(j)
    \/ ListCall
    \/ ListNext
    \/ LoadExists
    \/ LoadRead
    \/ ReaderReturn

SpecLedger == InitLedger /\ [][NextLedger]_vars

(***************************************************************************)
(* The claims.                                                             *)
(***************************************************************************)
\* floor of an offset in ticks: the whole second s with s <= t < s + 1
Floor(t) == CHOOSE s \in 0..t : Sec(s) <= t /\ t < Sec(s + 1)

\* what the splitter must return for an audio of L ticks cut every D seconds:
\* n chunks with (n-1)*D <= L < n*D, that is n = floor(L/D) + 1, starting
\* at 0, D, 2D, ...
SplitResultOk(L, D, start_times) ==
    LET n == Len(start_times)
    IN  /\ n >= 1
        /\ Sec((n - 1) * D) <= L
        /\ L < Sec(n * D)
        /\ \A k \in 1..n : start_times[k] = (k - 1) * D

\* C1: for every audio length L >= 0 and chunk duration D > 0 the splitter
\* returns floor(L/D)+1 chunks starting at 0, D, 2D, ... in that order, and
\* the reported count is the length of both lists returned.
C1_SplitterChunks ==
    /\ \A j \in JobIds :
         W(j).pc = "chunk_begin" =>
            /\ SplitResultOk(W(j).duration, W(j).chunk_duration, W(j).start_times)
            /\ W(j).num_chunks = Len(W(j).start_times)
            /\ Len(W(j).audio_chunks) = Len(W(j).start_times)
    /\ cli.pc = "transcribe" =>
            /\ SplitResultOk(cli.video.duration, cli.chunk_duration, cli.start_times)
            /\ Len(cli.audio_chunks) = Len(cli.start_times)

\* C1 witness: an audio of exactly two chunk durations was split into three
\* chunks, the last one starting at the end of the audio
C1_Witness ==
    \E j \in JobIds :
        /\ W(j).pc = "chunk_begin"
        /\ W(j).duration = Sec(2 * W(j).chunk_duration)
        /\ Len(W(j).start_times) = 3
        /\ Sec(W(j).start_times[3]) = W(j).duration

\* C2: within one job the progress stored in the record never decreases:
\* every write stores a value greater than or equal to the one stored before.
C2_ProgressNeverDecreases ==
    [][\A j \in JobIds :
         (j \in DOMAIN ledger /\ j \in DOMAIN ledger') =>
             FracLeq(ledger[j].progress, ledger'[j].progress)]_vars

\* the messages of the exceptions that reach the worker's except clause
ErrorMessages ==
    {"Video file not found", "ffmpeg returned non-zero exit status",
     "ffprobe returned non-zero exit status", "FPDF error"}

\* a record whose status is Completed or Failed
Terminal(rec) ==
    /\ "status" \in DOMAIN rec
    /\ \/ rec["status"] = "Completed"
       \/ \E m \in ErrorMessages : rec["status"] = FailedStatus(m)

\* C3: a record whose status is Completed or Failed is never changed again by
\* a worker or front-end step; it can only be removed, by delete_job.
C3_TerminalRecordFrozen ==
    [][\A j \in JobIds :
         (j \in DOMAIN ledger /\ Terminal(ledger[j])) =>
             \/ j \notin DOMAIN ledger'
             \/ ledger'[j] = ledger[j]]_vars

\* C3 witness: the worker has ended, its record is Failed and still there
\* after the steps taken since
C3_Witness ==
    \E j \in JobIds :
        /\ W(j).pc = "done"
        /\ j \in DOMAIN ledger
        /\ Terminal(ledger[j])
        /\ ledger[j]["status"] # "Completed"
        /\ j \notin temp_processing

\* C4: when an exception escapes the pipeline or the output stage, the worker
\* catches it, the record ends with status "Failed: <message>" and an error
\* field equal to the message, and the record is never set to Completed.
C4_FailureRecorded ==
    \A j \in JobIds :
        W(j).error # "" =>
            /\ W(j).pc \in {"except", "done"}
            /\ ~W(j).wrote_completed
            /\ (W(j).pc = "done" /\ j \in DOMAIN ledger) =>
                  /\ {"status", "error"} \subseteq DOMAIN ledger[j]
                  /\ ledger[j]["status"] = FailedStatus(W(j).error)
                  /\ ledger[j]["error"] = W(j).error

\* C4 witness: building the PDF raised after every chunk was transcribed, and
\* the record says Failed with that message
C4_Witness ==
    \E j \in JobIds :
        /\ W(j).pc = "done"
        /\ W(j).error = "FPDF error"
        /\ W(j).ok_segments >= 1
        /\ j \in DOMAIN ledger
        /\ ledger[j]["status"] = "Failed: FPDF error"
        /\ ledger[j]["error"] = "FPDF error"

\* C5: when transcription of some chunks raises, each failing chunk is
\* skipped without retry, every remaining chunk is still processed in index
\* order, the job still reaches Completed, and num_segments is the number of
\* non-empty segments of the chunks that did not fail.
C5_FailedChunksSkipped ==
    \A j \in JobIds :
        /\ \A k \in 1..Len(W(j).transcribed) : W(j).transcribed[k] = k - 1
        /\ (W(j).pc = "done" /\ W(j).error = "" /\ W(j).aborted_chunks = 0) =>
              /\ Len(W(j).transcribed) = Len(W(j).start_times)
              /\ W(j).wrote_completed
              /\ j \in DOMAIN ledger =>
                    /\ ledger[j]["status"] = "Completed"
                    /\ ledger[j]["num_segments"] = W(j).ok_segments

\* C5 witness: the first chunk raised, a later one gave a segment, and the
\* job is Completed
C5_Witness ==
    \E j \in JobIds :
        /\ W(j).pc = "done"
        /\ W(j).failed_chunks >= 1
        /\ W(j).aborted_chunks = 0
        /\ Len(W(j).transcribed) = 3
        /\ j \in DOMAIN ledger
        /\ ledger[j]["status"] = "Completed"
        /\ ledger[j]["num_segments"] = 1

\* C6: if audio extraction, WAV conversion, the duration probe or the carving
\* of a chunk fails, the job is aborted: no chunk is transcribed, no transcript
\* and no PDF is written, and the record ends Failed and never Completed.
C6_SetupFailureAborts ==
    \A j \in JobIds :
        W(j).fatal # "" =>
            /\ W(j).pc \in {"except", "done"}
            /\ W(j).transcribed = <<>>
            /\ W(j).timestamped_chunks = <<>>
            /\ j \in DOMAIN output =>
                  {"transcript.txt", "transcript.pdf"} \cap DOMAIN output[j] = {}
            /\ ~W(j).wrote_completed
            /\ (W(j).pc = "done" /\ j \in DOMAIN ledger) =>
                  ledger[j]["status"] = FailedStatus(W(j).error)

\* C6 witness: the second chunk could not be carved and the job ended Failed
C6_Witness ==
    \E j \in JobIds :
        /\ W(j).pc = "done"
        /\ W(j).fatal = "carve"
        /\ Len(W(j).start_times) = 1
        /\ j \in DOMAIN ledger
        /\ ledger[j]["status"] = "Failed: ffmpeg returned non-zero exit status"

\* the segments handled so far, by the workers and by the command-line run,
\* each with the interval of its run
Handled ==
    UNION { { [entry |-> W(j).log[k], interval |-> W(j).timestamp_interval] :
                k \in 1..Len(W(j).log) } : j \in JobIds }
    \cup { [entry |-> cli.log[k], interval |-> cli.timestamp_interval] :
             k \in 1..Len(cli.log) }

\* C7: for every non-empty segment at offset t and every interval a capture
\* is attempted if and only if floor(t) mod interval < 5; a segment with no
\* text gets none.
C7_CaptureWindow ==
    \A h \in Handled :
        IF h.entry.text = <<>>
        THEN ~h.entry.attempted
        ELSE h.entry.attempted <=> (Floor(h.entry.at) % h.interval < 5)

\* C7 witness: one run handled a segment with residue 4, captured, and one
\* with residue 5, not captured
C7_Witness ==
    \E g, h \in Handled :
        /\ g.interval = h.interval
        /\ g.entry.text # <<>> /\ h.entry.text # <<>>
        /\ Floor(g.entry.at) % g.interval = 4 /\ g.entry.attempted
        /\ Floor(h.entry.at) % h.interval = 5 /\ ~h.entry.attempted

\* the clock rendering H:MM:SS of a whole number of seconds
ClockLabel(n) ==
    Decimal(n \div 3600) \o <<":">> \o Decimal2((n \div 60) % 60)
        \o <<":">> \o Decimal2(n % 60)

\* C8: for every offset t >= 0, 24 hours and more included, format_timestamp(t)
\* is the H:MM:SS rendering of floor(t): hours without a leading zero, two
\* digits for the minutes and for the seconds.
C8_LabelIsClockOfFloor ==
    fmt.pc = "returned" => fmt.label = ClockLabel(Floor(fmt.seconds))


\* the captures of job j that put a file into the screenshot map
Recorded(j) == { k \in 1..Len(W(j).log) : W(j).log[k].outcome = "true" }

\* C9: within one job the screenshot map associates at most one file with
\* any timestamp label at every point of the run: the captures recorded under
\* one label all name the same file, which is the one the map holds; the
\* persistent map holds the copy of that one file.
C9_OneFilePerLabel ==
    \A j \in JobIds :
        /\ \A a, b \in Recorded(j) :
              format_timestamp(W(j).log[a].at) = format_timestamp(W(j).log[b].at)
                  => W(j).log[a].file = W(j).log[b].file
        /\ W(j).pc \in {"segment", "chunk_begin", "transcribe", "copy"} =>
              \A a \in Recorded(j) :
                  /\ format_timestamp(W(j).log[a].at) \in DOMAIN W(j).screenshots
                  /\ W(j).screenshots[format_timestamp(W(j).log[a].at)]
                        = W(j).log[a].file
        /\ \A ts \in DOMAIN W(j).persistent_screenshots :
              /\ ts \in DOMAIN W(j).screenshots
              /\ W(j).persistent_screenshots[ts]
                    = "output/" \o j \o "/"
                        \o Basename(W(j).screenshots[ts], ScreenshotNames(W(j)))

\* C9 witness: two segments within the same second were both captured, and
\* the persistent map holds one file under their label
C9_Witness ==
    \E j \in JobIds :
        /\ \E a, b \in Recorded(j) :
              /\ W(j).log[a].at # W(j).log[b].at
              /\ format_timestamp(W(j).log[a].at) = format_timestamp(W(j).log[b].at)
        /\ W(j).pc = "copied"
        /\ Sec(30) \in { W(j).log[a].at : a \in Recorded(j) }
        /\ format_timestamp(Sec(30)) \in DOMAIN W(j).persistent_screenshots

\* C10: a failed screenshot capture is non-fatal: extract_screenshot returns
\* false instead of raising, no screenshot is recorded for the label, the
\* segment is still appended to the transcript and the rest of the chunk is
\* still processed.
C10_FailedCaptureNonFatal ==
    \A h \in Handled :
        h.entry.outcome \in {"ffmpeg_error", "no_image"} =>
            /\ ~h.entry.raised
            /\ h.entry.appended


\* the outcomes of a text-correction call that count as a failure
CorrectionFailures == {"unreachable", "malformed", "empty"}

\* C11: in the command-line pipeline, when the text-correction call fails the
\* transcript entry carries the raw speech-recognition text unchanged, the
\* pipeline is not aborted, and the remaining segments and chunks are still
\* processed: the step goes on with the rest of the chunk, and a run that
\* ends has transcribed every chunk.
C11_CorrectionFailureKeepsRawText ==
    [][LET n == Len(cli.improved)
           m == Len(cli.timestamped_chunks)
       IN  /\ (Len(cli'.improved) = n + 1
                 /\ cli'.improved[n + 1].outcome \in CorrectionFailures) =>
                 LET e == cli'.improved[n + 1]
                 IN  /\ cli'.pc # "crashed"
                     /\ e.text = e.raw
                     /\ e.appended =>
                           /\ Len(cli'.timestamped_chunks) = m + 1
                           /\ SubSeq(cli'.timestamped_chunks, 1, m)
                                 = cli.timestamped_chunks
                           /\ cli'.timestamped_chunks[m + 1][2] = e.raw
                           /\ cli'.out_file = cli.out_file \o
                                 TextEntry(cli'.timestamped_chunks[m + 1][1], e.raw)
                     /\ cli.pc = "segment" =>
                           /\ e.appended
                           /\ cli'.pc = "segment"
                           /\ cli'.segments = Tail(cli.segments)
                           /\ cli'.i = cli.i
                     /\ cli.pc = "fallback" =>
                           /\ cli'.pc = "transcribe"
                           /\ cli'.i = cli.i + 1
           /\ cli'.pc \in {"pdf", "done"} =>
                 cli'.transcribed = [k \in 1..Len(cli'.start_times) |-> k - 1]]_vars

\* C11 witness: a correction call found the service unreachable, the raw text
\* went into the transcript, a later segment was corrected, and the run ended
\* with its three chunks transcribed
C11_Witness ==
    /\ cli.pc = "done"
    /\ Len(cli.transcribed) = 3
    /\ \E a, b \in 1..Len(cli.improved) :
          /\ a < b
          /\ cli.improved[a].outcome = "unreachable"
          /\ cli.improved[a].appended
          /\ cli.improved[a].raw # <<>>
          /\ \E k \in 1..Len(cli.timestamped_chunks) :
                cli.timestamped_chunks[k][2] = cli.improved[a].raw
          /\ cli.improved[b].outcome = "ok"


(***************************************************************************)
(* Reading a transcript file back: the file is split on blank lines and    *)
(* each block read as "[timestamp] text".                                  *)
(***************************************************************************)
\* the blocks of a file, cut at every "\n\n"
RECURSIVE SplitBlocks(_, _)
SplitBlocks(s, block) ==
    IF s = <<>> THEN <<block>>
    ELSE IF Len(s) >= 2 /\ s[1] = "\n" /\ s[2] = "\n"
    THEN <<block>> \o SplitBlocks(SubSeq(s, 3, Len(s)), <<>>)
    ELSE SplitBlocks(Tail(s), Append(block, Head(s)))

\* the position of the first "]" followed by a space, 0 for none
FirstClose(b) ==
    LET at == { k \in 1..(Len(b) - 1) : b[k] = "]" /\ b[k + 1] = " " }
    IN  IF at = {} THEN 0 ELSE CHOOSE k \in at : \A l \in at : k <= l

\* the pair a block stands for; a block that is not "[timestamp] text" is
\* read as a text without a label
ParseBlock(b) ==
    IF b # <<>> /\ Head(b) = "[" /\ FirstClose(b) # 0
    THEN <<SubSeq(b, 2, FirstClose(b) - 1), SubSeq(b, FirstClose(b) + 2, Len(b))>>
    ELSE <<<<>>, b>>

\* the pairs of a file, the empty blocks dropped
ParseTranscript(file) ==
    LET blocks == SelectSeq(SplitBlocks(file, <<>>), LAMBDA b : b # <<>>)
    IN  [k \in 1..Len(blocks) |-> ParseBlock(blocks[k])]

\* C12: for every transcript the pipeline produces, writing it and parsing
\* the file back by splitting on blank lines into "[timestamp] text" blocks
\* yields the same ordered list of pairs.
C12_TextRoundTrip ==
    /\ \A j \in JobIds :
          (j \in DOMAIN output /\ "transcript.txt" \in DOMAIN output[j]) =>
              ParseTranscript(output[j]["transcript.txt"]) = W(j).timestamped_chunks
    /\ cli.pc \in {"pdf", "done"} =>
          ParseTranscript(cli.out_file) = cli.timestamped_chunks


\* the fields create_new_job writes and the fields the Completed write adds
SubmissionFields == {"job_id", "filename", "created_at", "settings"}

CompletionFields ==
    {"completed_at", "txt_path", "pdf_path", "num_screenshots", "num_segments"}

\* C13: every record whose status is Completed holds the identifier, the
\* filename, the creation time and the settings written at submission,
\* together with progress 100, a completion time, txt_path, pdf_path,
\* num_screenshots and num_segments.
C13_CompletedRecordFields ==
    \A j \in DOMAIN ledger :
        ("status" \in DOMAIN ledger[j] /\ ledger[j]["status"] = "Completed") =>
            /\ SubmissionFields \cup CompletionFields \cup {"progress"}
                  \subseteq DOMAIN ledger[j]
            /\ ledger[j]["job_id"] = j
            /\ ledger[j]["filename"] = W(j).video.name
            /\ ledger[j]["settings"].chunk_duration = W(j).chunk_duration
            /\ ledger[j]["settings"].timestamp_interval = W(j).timestamp_interval
            /\ FracEq(ledger[j]["progress"], Whole(100))


\* C14: in interactive mode a failure to write the text transcript or the PDF
\* is caught inside the renderer and reported in the job's record: the record
\* of a job whose renderer returned false does not present that output as
\* produced (it names no path for it, or carries an error).
C14_OutputFailureReported ==
    \A j \in DOMAIN ledger :
        ("status" \in DOMAIN ledger[j] /\ ledger[j]["status"] = "Completed") =>
            /\ W(j).txt_saved = "false" =>
                  \/ "txt_path" \notin DOMAIN ledger[j]
                  \/ "error" \in DOMAIN ledger[j]
            /\ W(j).pdf_saved = "false" =>
                  \/ "pdf_path" \notin DOMAIN ledger[j]
                  \/ "error" \in DOMAIN ledger[j]


\* nothing of job j is left: no record, no output directory, no scratch
\* directory, no entry in the listing
Gone(j, records, outputs, scratch) ==
    /\ j \notin DOMAIN records
    /\ j \notin DOMAIN outputs
    /\ j \notin scratch
    /\ \A k \in 1..Len(ListJobs(records)) : ListJobs(records)[k].job_id # j

\* C15: after delete_job(j) returns for a job whose worker is not running,
\* j's record, output directory and scratch directory no longer exist, j is
\* absent from list_jobs, and the records and directories of every other job
\* are unchanged.
C15_DeleteAtRest ==
    [][\A j \in AllJobIds :
         /\ (W(j).deleted # "at_rest" /\ worker'[j].deleted = "at_rest") =>
               /\ Gone(j, ledger', output', temp_processing')
               /\ \A o \in AllJobIds \ {j} :
                     /\ o \in DOMAIN ledger <=> o \in DOMAIN ledger'
                     /\ o \in DOMAIN ledger => ledger'[o] = ledger[o]
                     /\ o \in DOMAIN output <=> o \in DOMAIN output'
                     /\ o \in DOMAIN output => output'[o] = output[o]
                     /\ o \in temp_processing <=> o \in temp_processing'
         /\ W(j).deleted = "at_rest" =>
               Gone(j, ledger', output', temp_processing')]_vars

\* C15 witness: a completed job was deleted at rest and nothing of it is
\* left, while the other job has its record, its scratch directory and its
\* transcript
C15_Witness ==
    \E j \in AllJobIds, o \in AllJobIds :
        /\ j # o
        /\ W(j).deleted = "at_rest"
        /\ W(j).wrote_completed
        /\ Gone(j, ledger, output, temp_processing)
        /\ o \in DOMAIN ledger
        /\ o \in temp_processing
        /\ o \in DOMAIN output
        /\ "transcript.txt" \in DOMAIN output[o]
        /\ Len(list_jobs) = 1
        /\ list_jobs[1].job_id = o


\* in a log, no capture is called for a segment whose label already has a
\* screenshot recorded by an earlier segment
NoRepeatedCapture(log) ==
    \A a, b \in 1..Len(log) :
        (/\ a < b
         /\ log[a].outcome = "true"
         /\ log[b].text # <<>>
         /\ format_timestamp(log[a].at) = format_timestamp(log[b].at))
            => ~log[b].attempted

\* C16: when a second non-empty segment yields a label that already has a
\* screenshot recorded in the same job, no capture is invoked again for that
\* label and the recorded entry is left as it was.
C16_InsertIfAbsent ==
    /\ \A j \in JobIds : NoRepeatedCapture(W(j).log)
    /\ NoRepeatedCapture(cli.log)


\* a fraction that is a whole number between 0 and 100
IsPercentage(p) ==
    /\ p.num % p.den = 0
    /\ 0 <= p.num
    /\ p.num <= 100 * p.den

\* C17: every progress value written to a job record is an integer between
\* 0 and 100 inclusive, for every number of chunks.
C17_ProgressIsIntegerPercentage ==
    \A j \in DOMAIN ledger :
        "progress" \in DOMAIN ledger[j] => IsPercentage(ledger[j]["progress"])


\* the segments of job j that went into its transcript, in the order handled
Entered(j) == SelectSeq(W(j).log, LAMBDA e : e.appended)

\* C18: the transcript is in chronological order: its entries are the
\* segments appended, in the order handled, and the absolute offsets of
\* consecutive entries are non-decreasing across the whole job, across chunk
\* boundaries and across skipped chunks.
C18_TranscriptChronological ==
    \A j \in JobIds :
        /\ Len(Entered(j)) = Len(W(j).timestamped_chunks)
        /\ \A k \in 1..Len(Entered(j)) :
              /\ W(j).timestamped_chunks[k][1] = format_timestamp(Entered(j)[k].at)
              /\ W(j).timestamped_chunks[k][2] = Entered(j)[k].text
        /\ \A k \in 1..(Len(Entered(j)) - 1) :
              /\ Entered(j)[k].at <= Entered(j)[k + 1].at
              /\ Entered(j)[k].chunk <= Entered(j)[k + 1].chunk

\* C18 witness: a finished transcript with consecutive entries from the
\* first and the seventh chunk, every other chunk having raised
C18_Witness ==
    \E j \in JobIds :
        /\ W(j).pc = "done"
        /\ W(j).failed_chunks = 7
        /\ Len(W(j).transcribed) = 9
        /\ Len(Entered(j)) = 2
        /\ Entered(j)[1].chunk = 0
        /\ Entered(j)[2].chunk = 6
        /\ Entered(j)[1].at < Entered(j)[2].at

\* what a read may answer for job j: a record whose write was completed, or
\* the placeholder
Answer(j, data) == data \in written[j] \/ Get(data, "status", "") = "Error"

ReaderAnswered ==
    /\ reader.pc # "raised"
    /\ reader.pc = "returned" /\ reader.op = "load" =>
           /\ reader.value.kind # "None"
           /\ Answer(reader.job, reader.value.data)
    /\ reader.pc = "returned" /\ reader.op = "list" =>
           \A k \in 1..Len(reader.jobs) :
               \E data \in written[reader.jobs[k].job_id] \cup {InvalidFormat} :
                   reader.jobs[k] = JobEntry(reader.jobs[k].job_id, data)

\* C19: a read of the job records that runs while the workers overwrite them
\* never raises; load_job_status returns a record whose write was completed
\* or the placeholder with status 'Error', list_jobs the entries of such
\* records, and no step of the read changes a record file.
C19_ReaderToleratesOverwrite ==
    [][/\ ReaderAnswered'
       /\ reader' # reader => ledger' = ledger /\ torn' = torn]_vars

\* load_job_status has returned the placeholder for a file it read while the
\* file was being written, which it still is
C19_Witness ==
    /\ reader.pc = "returned" /\ reader.op = "load"
    /\ reader.read_torn /\ reader.job \in torn
    /\ reader.value.data = InvalidFormat

\* C20: while two jobs run at once, a step that changes the record of job j
\* between its creation and its deletion is a step of j's own worker: no
\* other worker moves in it, and it is not the front end's.
C20_OwnWorkerWrites ==
    [][\A j \in AllJobIds :
           j \in DOMAIN ledger /\ j \in DOMAIN ledger' /\ ledger'[j] # ledger[j] =>
               /\ ~AtRest(j)
               /\ worker'[j].pc # worker[j].pc
               /\ \A k \in AllJobIds \ {j} : worker'[k] = worker[k]]_vars

\* both workers are running and each has reported into its own record
C20_Witness ==
    \A j \in AllJobIds :
        /\ j \in DOMAIN ledger /\ ~AtRest(j)
        /\ ledger[j]["job_id"] = j
        /\ ledger[j]["status"] # "Created"

\* C21: with every call of its worker returning or raising, the record of a
\* job, from its submission, eventually has status Completed or a status
\* that starts with "Failed"; a job whose worker has not ended is one whose
\* worker can still take a step.
C21_JobEventuallyTerminal ==
    \A j \in JobIds :
        /\ W(j).pc = "start" ~> (j \in DOMAIN ledger /\ Terminal(ledger[j]))
        /\ [](W(j).pc \notin {"idle", "done"} => ENABLED WorkerStep(j))

\* the worker ended with Completed after a chunk failed, and with the
\* record still there
C21_Witness ==
    \E j \in JobIds :
        /\ W(j).pc = "done" /\ W(j).failed_chunks >= 1
        /\ j \in DOMAIN ledger /\ ledger[j]["status"] = "Completed"

\* the texts of a transcript
Texts(chunks) == { chunks[k][2] : k \in 1..Len(chunks) }

\* C22: no entry of a transcript has empty text, in the interactive pipeline
\* and in the command-line pipeline; a segment whose trimmed text is empty
\* was given neither an entry nor a capture.
C22_NoEmptyEntry ==
    /\ \A j \in JobIds : <<>> \notin Texts(W(j).timestamped_chunks)
    /\ <<>> \notin Texts(cli.timestamped_chunks)
    /\ \A h \in Handled :
          h.entry.text = <<>> => ~h.entry.appended /\ ~h.entry.attempted

\* the fields update_job_progress assigns
ProgressFields == {"status", "progress", "updated_at"}

\* C23: a progress update of job j's worker changes only the status, the
\* progress and the update time of j's record: every other field of the
\* record is as it was, and job_id, filename, created_at and settings are
\* there with the values written at the job's creation.
C23_UpdateKeepsSubmission ==
    [][\A j \in JobIds :
         (/\ worker[j].pc \notin {"idle", "complete", "except", "done"}
          /\ worker'[j].pc # worker[j].pc
          /\ ledger' # ledger) =>
             /\ j \in DOMAIN ledger'
             /\ DOMAIN ledger'[j] = DOMAIN load_job_status(j) \cup ProgressFields
             /\ \A key \in DOMAIN load_job_status(j) \ ProgressFields :
                   ledger'[j][key] = load_job_status(j)[key]
             /\ SubmissionFields \subseteq DOMAIN ledger'[j]
             /\ ledger'[j]["job_id"] = j
             /\ ledger'[j]["filename"] = W(j).video.name
             /\ ledger'[j]["settings"].chunk_duration = W(j).chunk_duration
             /\ ledger'[j]["settings"].timestamp_interval = W(j).timestamp_interval]_vars

\* the segments the speech model reports for chunk i of a video
Reported(video, i, cd) ==
    { Whisper(video, i, cd)[k] : k \in 1..Len(Whisper(video, i, cd)) }

\* the segment handled came from its chunk: its absolute offset is the start
\* of the chunk plus an offset the model reported inside the chunk
FromChunk(e, video, cd) ==
    \E seg \in Reported(video, e.chunk, cd) :
        /\ e.at = Sec(e.chunk * cd) + seg.start
        /\ e.text = Strip(seg.text)

\* C24: every segment handled has for absolute offset the start offset of
\* its chunk plus the offset the model reported inside the chunk, in both
\* pipelines; the label of its transcript entry is the rendering of that
\* offset and the capture was decided on that offset.
C24_OffsetIsChunkStartPlusSegment ==
    /\ \A j \in JobIds :
          /\ \A k \in 1..Len(W(j).log) :
                FromChunk(W(j).log[k], W(j).video, W(j).chunk_duration)
          /\ \A k \in 1..Len(W(j).timestamped_chunks) :
                /\ k <= Len(Entered(j))
                /\ W(j).timestamped_chunks[k][1] = format_timestamp(Entered(j)[k].at)
    /\ \A k \in 1..Len(cli.log) :
          /\ FromChunk(cli.log[k], cli.video, cli.chunk_duration)
          /\ cli.log[k].appended =>
                \E n \in 1..Len(cli.timestamped_chunks) :
                    cli.timestamped_chunks[n][1] = format_timestamp(cli.log[k].at)
    /\ \A h \in Handled :
          h.entry.attempted => ShouldCapture(h.entry.at, h.interval)

\* an entry of a finished transcript comes from the second chunk, 3 s into it
C24_Witness ==
    \E j \in JobIds :
        /\ W(j).pc = "done"
        /\ \E k \in 1..Len(W(j).log) :
              /\ W(j).log[k].appended
              /\ W(j).log[k].chunk = 1
              /\ W(j).log[k].at = Sec(63)

\* C25: once delete_job(j) has returned there is no record of j at any later
\* time, whether j's worker was at rest or still running when it was called.
C25_DeletedStaysDeleted ==
    \A j \in JobIds : W(j).deleted # "no" => j \notin DOMAIN ledger

\* the transcription of every chunk of job j taken up so far raised
EveryChunkFailed(j) == W(j).failed_chunks = Len(W(j).transcribed)

\* C26: in the interactive pipeline a job whose extraction, conversion and
\* splitting succeeded ends Completed unless the output stage raises,
\* however many of its chunks fail: no chunk failure reaches the except
\* clause, the worker that entered the chunk loop ends with the Completed
\* write or with the output stage's exception, and when every chunk failed
\* the transcript is empty and num_segments is 0.
C26_ChunkFailuresDoNotFail ==
    \A j \in JobIds :
        /\ [](W(j).error # "" => W(j).fatal # "" \/ W(j).error = "FPDF error")
        /\ [](W(j).pc = "done" /\ W(j).error = "" =>
                /\ W(j).wrote_completed
                /\ j \in DOMAIN ledger =>
                      /\ ledger[j]["status"] = "Completed"
                      /\ ledger[j]["num_segments"] = Len(W(j).timestamped_chunks)
                      /\ EveryChunkFailed(j) =>
                            /\ W(j).timestamped_chunks = <<>>
                            /\ ledger[j]["num_segments"] = 0)
        /\ W(j).pc = "chunk_begin" ~>
               (W(j).pc = "done" /\ (W(j).wrote_completed \/ W(j).error = "FPDF error"))

\* every one of the three chunks raised, and the record says Completed with
\* no segment
C26_Witness ==
    \E j \in JobIds :
        /\ W(j).pc = "done"
        /\ W(j).failed_chunks = 3 /\ Len(W(j).transcribed) = 3
        /\ j \in DOMAIN ledger
        /\ ledger[j]["status"] = "Completed"
        /\ ledger[j]["num_segments"] = 0

\* the entries of job j's transcript that carry label ts and whose offset is
\* in the capture window
WindowEntries(j, ts) ==
    { k \in 1..Len(W(j).timestamped_chunks) :
        /\ k <= Len(Entered(j))
        /\ W(j).timestamped_chunks[k][1] = ts
        /\ Floor(Entered(j)[k].at) % W(j).timestamp_interval < 5 }

\* C27: in the interactive pipeline every key of the screenshot map, and of
\* the persistent map process_video returns, is the label of a transcript
\* entry whose offset t has floor(t) mod interval < 5; the map has no more
\* keys than the transcript has entries, and num_screenshots in the
\* Completed record is at most num_segments.
C27_ScreenshotKeysAreEntryLabels ==
    \A j \in JobIds :
        /\ \A ts \in DOMAIN W(j).screenshots \cup DOMAIN W(j).persistent_screenshots :
              WindowEntries(j, ts) # {}
        /\ Cardinality(DOMAIN W(j).persistent_screenshots)
              <= Len(W(j).timestamped_chunks)
        /\ (j \in DOMAIN ledger /\ "num_screenshots" \in DOMAIN ledger[j]) =>
              /\ ledger[j]["num_screenshots"] <= ledger[j]["num_segments"]
              /\ ledger[j]["num_screenshots"]
                    = Cardinality(DOMAIN W(j).persistent_screenshots)

\* a Completed record with a screenshot and more segments than screenshots
C27_Witness ==
    \E j \in JobIds :
        /\ W(j).pc = "done"
        /\ j \in DOMAIN ledger /\ "num_screenshots" \in DOMAIN ledger[j]
        /\ ledger[j]["num_screenshots"] >= 1
        /\ ledger[j]["num_screenshots"] < ledger[j]["num_segments"]

=============================================================================
